---- MODULE Spec2Model ----
(***************************************************************************)
(* A model of cnvlib's genomic interval container (gary.py) and of the     *)
(* antitarget derivation (antitarget.py).                                  *)
(*                                                                         *)
(* Three machines share this module, each with its own specifications:     *)
(*   SpecSweep       find_background_regions, one step from a yield or a   *)
(*                   loop test to the next, on sorted, non-overlapping     *)
(*                   targets                                               *)
(*   SpecSweepAny    the same on one chromosome with targets in any order  *)
(*   SpecSweepFair   the same on any targets, iterated to its end          *)
(*   SpecArray       GenomicArray.in_range / in_ranges, and the generators *)
(*                   of by_bin / by_chromosome, one step per next(), on a  *)
(*                   table drawn by Init                                   *)
(*   SpecSort        GenomicArray.sort, applied to a table drawn by Init   *)
(*   SpecEdit        sort / shuffle / add_array / __setitem__, up to       *)
(*                   MaxEdits calls in any order, also while a generator   *)
(*                   made by by_chromosome is suspended                    *)
(*   SpecEditBin     the same while a generator made by by_bin is          *)
(*                   suspended                                             *)
(*   SpecBackground  get_background up to the call of the sweep            *)
(* The variables of the machines a specification does not run stay at      *)
(* their idle values.                                                      *)
(***************************************************************************)
EXTENDS Integers, Sequences, FiniteSets, TLC

\* ------------------------------------------------------------------ bounds
\* Largest coordinate of an accessible or target interval given to the sweep.
MaxPos == 5
\* Most accessible intervals on one chromosome given to the sweep.
MaxAcc == 2
\* Most target intervals on one chromosome given to the sweep.
MaxTgt == 2
\* Largest pad_size given to the sweep.
MaxPad == 1
\* Most chromosomes in access_chroms.
MaxChroms == 2

\* Largest coordinate of a row of a GenomicArray, and of a range query.
MaxCoord == 3
\* Most rows of a GenomicArray.
MaxRows == 3
\* Most rows of the bins table given to by_bin.
MaxBins == 2
\* Most (start, end) pairs given to in_ranges.
MaxRanges == 2

\* TELOMERE_SIZE
TELOMERE_SIZE == 150000

\* float('Inf'): larger than every coordinate the model can form.
Inf == 1000000
\* A local of the sweep that is not bound yet: a value no coordinate takes.
None == -1

VARIABLES
    \* find_background_regions
    pc,          \* position in the generator
    pad_size,    \* argument pad_size
    chroms_left, \* items of access_chroms.items() not yet visited
    chrom,       \* ordinal of the chromosome being processed
    access_arr,  \* access_arr.coords() of this chromosome
    target_arr,  \* target_chroms[chrom].coords(); <<>> when chrom is not a key
    acc_idx,     \* rows of access_arr read so far
    acc_start, acc_end,
    tgt_idx,     \* rows of target_regions read so far (the iterator's position)
    tgt_start, tgt_end,
    bg_start,
    yielded,     \* the triples yielded for this chromosome, in order
    yield_acc,   \* for each of them, the ordinal of the accessible region
                 \* that was being processed when it was yielded
    passes,      \* passes of the inner while loop made on this chromosome
    stop_at,     \* ordinal of the accessible region in which next() raised
                 \* StopIteration; 0 while it has not
    \* GenomicArray
    data,        \* self.data: the rows, in table order
    data_index,  \* self.data.index: the label of each row
    edits,       \* calls of the modifying methods made so far
    call,        \* the method applied to the array, with its arguments
    result,      \* what the method returned or raised
    frame,       \* the generator made by by_chromosome or by_bin: where it is
                 \* suspended, and the items it has yielded, in order
    \* get_background
    gb_pc,         \* position in get_background
    target_bed,    \* the table read from target_bed
    access_bed,    \* the table read from access_bed, if access_bed is given
    target_chroms, \* dict: chromosome name -> sub-table
    access_chroms, \* dict: chromosome name -> sub-table
    skipped,       \* the names logged as "Skipping untargeted chromosome"
    gb_error       \* the exception get_background raised, if any

sweepVars == <<pc, pad_size, chroms_left, chrom, access_arr, target_arr,
               acc_idx, acc_start, acc_end, tgt_idx, tgt_start, tgt_end,
               bg_start, yielded, yield_acc, passes, stop_at>>

arrayVars == <<data, data_index, edits, call, result, frame>>

gbVars == <<gb_pc, target_bed, access_bed, target_chroms, access_chroms,
            skipped, gb_error>>

vars == <<sweepVars, arrayVars, gbVars>>

\* What the sweep's steps leave alone, and what the array's methods do.
notSweep == <<arrayVars, gbVars>>
notArray == <<sweepVars, gbVars>>
notBackground == <<sweepVars, arrayVars>>

\* The idle values of each machine's variables.
SweepIdle ==
    /\ pc = "idle"
    /\ pad_size = 0
    /\ chroms_left = 0
    /\ chrom = 0
    /\ access_arr = <<>>
    /\ target_arr = <<>>
    /\ acc_idx = 0
    /\ acc_start = None
    /\ acc_end = None
    /\ tgt_idx = 0
    /\ tgt_start = None
    /\ tgt_end = None
    /\ bg_start = None
    /\ yielded = <<>>
    /\ yield_acc = <<>>
    /\ passes = 0
    /\ stop_at = 0

ArrayIdle ==
    /\ data = <<>>
    /\ data_index = <<>>
    /\ edits = 0
    /\ call = [op |-> "idle"]
    /\ result = [op |-> "idle"]
    /\ frame = [kind |-> "idle"]

BackgroundIdle ==
    /\ gb_pc = "idle"
    /\ target_bed = <<>>
    /\ access_bed = [given |-> FALSE, rows |-> <<>>]
    /\ target_chroms = <<>>
    /\ access_chroms = <<>>
    /\ skipped = {}
    /\ gb_error = "none"

\* ------------------------------------------------------------- intervals
Interval(s, e) == [start |-> s, end |-> e]

\* Every list of at most n intervals inside lo..MaxPos that is sorted
\* ascending, mutually non-overlapping, each with start < end.
RECURSIVE DisjointLists(_, _)
DisjointLists(lo, n) ==
    IF n = 0 THEN {<<>>}
    ELSE {<<>>} \cup
         UNION { UNION { { <<Interval(s, e)>> \o rest :
                            rest \in DisjointLists(e, n - 1) } :
                         e \in (s + 1)..MaxPos } :
                 s \in lo..MaxPos }

AccessLists == DisjointLists(0, MaxAcc) \ {<<>>}
TargetLists == DisjointLists(0, MaxTgt)

\* ------------------------------------------------- find_background_regions
\* line 88: the accessible region is way too small
TooSmall(a_start, a_end, pad) == a_end - a_start <= 2 * pad

\* A slip in line 93: the bounds set on StopIteration pass the loop test.
MoreTargetsOrExhausted(t_start, a_end) == t_start < a_end \/ t_start >= Inf

\* line 93: there may be at least one more target in this region
MoreTargets(t_start, a_end) == t_start < a_end

\* line 95: yes, there is a target in this region
TargetInRegion(t_end, pad, bg) == t_end + pad > bg

\* A slip in line 97: >= for >, an empty split is yielded.
SplitHereOrTouching(t_start, pad, bg) == t_start - pad >= bg

\* line 97: split the background region at this target
SplitHere(t_start, pad, bg) == t_start - pad > bg

\* A slip in line 100: the pad is counted twice after a target.
BgAfterTargetTwicePadded(t_end, pad) == t_end + 2 * pad

\* line 100
BgAfterTarget(t_end, pad) == t_end + pad

\* A slip in line 110: a rest of one position is taken for empty.
RestRemainsBeyondOne(a_end, pad, bg) == a_end - pad - bg > 1

\* line 110: the rest of the accessible region is not empty
RestRemains(a_end, pad, bg) == a_end - pad - bg > 0

Triple(c, s, e) == <<c, s, e>>

SweepInit ==
    /\ pc = "chrom"
    /\ pad_size \in 0..MaxPad
    /\ chroms_left \in 0..MaxChroms
    /\ chrom = 0
    /\ access_arr = <<>>
    /\ target_arr = <<>>
    /\ acc_idx = 0
    /\ acc_start = None
    /\ acc_end = None
    /\ tgt_idx = 0
    /\ tgt_start = None
    /\ tgt_end = None
    /\ bg_start = None
    /\ yielded = <<>>
    /\ yield_acc = <<>>
    /\ passes = 0
    /\ stop_at = 0
    /\ ArrayIdle
    /\ BackgroundIdle

\* lines 80-85: the next item of access_chroms.items(); with targets, the
\* first target is read from the fresh iterator.
ChromNext ==
    /\ pc = "chrom"
    /\ chroms_left > 0
    /\ \E acc \in AccessLists, tgt \in TargetLists :
         /\ access_arr' = acc
         /\ target_arr' = tgt
         /\ IF tgt # <<>>
            THEN /\ tgt_start' = tgt[1].start
                 /\ tgt_end' = tgt[1].end
                 /\ tgt_idx' = 1
                 /\ pc' = "acc"
            ELSE /\ tgt_start' = None
                 /\ tgt_end' = None
                 /\ tgt_idx' = 0
                 /\ pc' = "plain"
    /\ chrom' = chrom + 1
    /\ chroms_left' = chroms_left - 1
    /\ acc_idx' = 0
    /\ acc_start' = None
    /\ acc_end' = None
    /\ bg_start' = None
    /\ yielded' = <<>>
    /\ yield_acc' = <<>>
    /\ passes' = 0
    /\ stop_at' = 0
    /\ UNCHANGED pad_size
    /\ UNCHANGED notSweep

\* line 80: access_chroms.items() is exhausted, the generator returns.
SweepReturn ==
    /\ pc = "chrom"
    /\ chroms_left = 0
    /\ pc' = "done"
    /\ UNCHANGED <<pad_size, chroms_left, chrom, access_arr, target_arr,
                   acc_idx, acc_start, acc_end, tgt_idx, tgt_start, tgt_end,
                   bg_start, yielded, yield_acc, passes, stop_at>>
    /\ UNCHANGED notSweep

\* lines 87-90: an accessible region that is too small is skipped.
AccessTooSmall ==
    /\ pc = "acc"
    /\ acc_idx < Len(access_arr)
    /\ TooSmall(access_arr[acc_idx + 1].start, access_arr[acc_idx + 1].end,
                pad_size)
    /\ acc_idx' = acc_idx + 1
    /\ acc_start' = access_arr[acc_idx + 1].start
    /\ acc_end' = access_arr[acc_idx + 1].end
    /\ UNCHANGED <<pc, pad_size, chroms_left, chrom, access_arr, target_arr,
                   tgt_idx, tgt_start, tgt_end, bg_start, yielded, yield_acc,
                   passes, stop_at>>
    /\ UNCHANGED notSweep

\* lines 87-92: the next accessible region is entered.
AccessBegin ==
    /\ pc = "acc"
    /\ acc_idx < Len(access_arr)
    /\ ~TooSmall(access_arr[acc_idx + 1].start, access_arr[acc_idx + 1].end,
                 pad_size)
    /\ acc_idx' = acc_idx + 1
    /\ acc_start' = access_arr[acc_idx + 1].start
    /\ acc_end' = access_arr[acc_idx + 1].end
    /\ bg_start' = access_arr[acc_idx + 1].start + pad_size
    /\ pc' = "while"
    /\ UNCHANGED <<pad_size, chroms_left, chrom, access_arr, target_arr,
                   tgt_idx, tgt_start, tgt_end, yielded, yield_acc, passes,
                   stop_at>>
    /\ UNCHANGED notSweep

\* lines 102-107: the next target is read; on StopIteration the target bounds
\* are set to infinity.
AdvanceTarget ==
    IF tgt_idx < Len(target_arr)
    THEN /\ tgt_start' = target_arr[tgt_idx + 1].start
         /\ tgt_end' = target_arr[tgt_idx + 1].end
         /\ tgt_idx' = tgt_idx + 1
         /\ UNCHANGED stop_at
    ELSE \* StopIteration: all the remaining access_regions are unbroken
         /\ tgt_start' = Inf
         /\ tgt_end' = Inf
         /\ tgt_idx' = tgt_idx
         /\ stop_at' = acc_idx

\* lines 93-107: one pass of the inner while loop. A pass that splits the
\* region runs to the yield of line 99, where the generator is suspended; any
\* other pass runs to its end.
WhilePass ==
    /\ pc = "while"
    /\ MoreTargets(tgt_start, acc_end)
    /\ passes' = passes + 1
    /\ IF /\ TargetInRegion(tgt_end, pad_size, bg_start)
          /\ SplitHere(tgt_start, pad_size, bg_start)
       THEN /\ yielded' = Append(yielded,
                                 Triple(chrom, bg_start,
                                        tgt_start - pad_size))
            /\ yield_acc' = Append(yield_acc, acc_idx)
            /\ pc' = "split"
            /\ UNCHANGED <<bg_start, tgt_idx, tgt_start, tgt_end, stop_at>>
       ELSE /\ bg_start' = IF TargetInRegion(tgt_end, pad_size, bg_start)
                           THEN BgAfterTarget(tgt_end, pad_size)
                           ELSE bg_start
            /\ AdvanceTarget
            /\ UNCHANGED <<pc, yielded, yield_acc>>
    /\ UNCHANGED <<pad_size, chroms_left, chrom, access_arr, target_arr,
                   acc_idx, acc_start, acc_end>>
    /\ UNCHANGED notSweep

\* lines 100-107: the generator is resumed after the yield of line 99 and the
\* pass runs to its end.
SplitResume ==
    /\ pc = "split"
    /\ bg_start' = BgAfterTarget(tgt_end, pad_size)
    /\ AdvanceTarget
    /\ pc' = "while"
    /\ UNCHANGED <<pad_size, chroms_left, chrom, access_arr, target_arr,
                   acc_idx, acc_start, acc_end, yielded, yield_acc, passes>>
    /\ UNCHANGED notSweep

\* lines 93, 109-111: no remaining targets in this region, emit the rest.
EmitRest ==
    /\ pc = "while"
    /\ ~MoreTargets(tgt_start, acc_end)
    /\ IF RestRemains(acc_end, pad_size, bg_start)
       THEN /\ yielded' = Append(yielded,
                                 Triple(chrom, bg_start, acc_end - pad_size))
            /\ yield_acc' = Append(yield_acc, acc_idx)
       ELSE UNCHANGED <<yielded, yield_acc>>
    /\ pc' = "acc"
    /\ UNCHANGED <<pad_size, chroms_left, chrom, access_arr, target_arr,
                   acc_idx, acc_start, acc_end, tgt_idx, tgt_start, tgt_end,
                   bg_start, passes, stop_at>>
    /\ UNCHANGED notSweep

\* lines 112-114: a chromosome without targets, each region shrunk by the pad.
EmitUnbroken ==
    /\ pc = "plain"
    /\ acc_idx < Len(access_arr)
    /\ acc_idx' = acc_idx + 1
    /\ acc_start' = access_arr[acc_idx + 1].start
    /\ acc_end' = access_arr[acc_idx + 1].end
    /\ yielded' = Append(yielded,
                         Triple(chrom,
                                access_arr[acc_idx + 1].start + pad_size,
                                access_arr[acc_idx + 1].end - pad_size))
    /\ yield_acc' = Append(yield_acc, acc_idx + 1)
    /\ UNCHANGED <<pc, pad_size, chroms_left, chrom, access_arr, target_arr,
                   tgt_idx, tgt_start, tgt_end, bg_start, passes, stop_at>>
    /\ UNCHANGED notSweep

\* lines 87, 113: access_arr.coords() is exhausted; the chromosome is complete.
AccessExhausted ==
    /\ pc \in {"acc", "plain"}
    /\ acc_idx = Len(access_arr)
    /\ pc' = "chromdone"
    /\ UNCHANGED <<pad_size, chroms_left, chrom, access_arr, target_arr,
                   acc_idx, acc_start, acc_end, tgt_idx, tgt_start, tgt_end,
                   bg_start, yielded, yield_acc, passes, stop_at>>
    /\ UNCHANGED notSweep

\* line 80: back at the head of the outer loop; the finished chromosome's
\* tables, iterator and locals are rebound by the next item.
ChromLoop ==
    /\ pc = "chromdone"
    /\ pc' = "chrom"
    /\ access_arr' = <<>>
    /\ target_arr' = <<>>
    /\ acc_idx' = 0
    /\ acc_start' = None
    /\ acc_end' = None
    /\ tgt_idx' = 0
    /\ tgt_start' = None
    /\ tgt_end' = None
    /\ bg_start' = None
    /\ yielded' = <<>>
    /\ yield_acc' = <<>>
    /\ passes' = 0
    /\ stop_at' = 0
    /\ UNCHANGED <<pad_size, chroms_left, chrom>>
    /\ UNCHANGED notSweep

SweepNext ==
    \/ ChromNext
    \/ SweepReturn
    \/ AccessTooSmall
    \/ AccessBegin
    \/ WhilePass
    \/ SplitResume
    \/ EmitRest
    \/ EmitUnbroken
    \/ AccessExhausted
    \/ ChromLoop

SpecSweep == SweepInit /\ [][SweepNext]_vars

\* Largest coordinate of a target of a list that need not be sorted.
MaxAnyPos == 4

\* line 86: a target has start < end.
ProperIntervals ==
    { iv \in [start : 0..MaxAnyPos, end : 0..MaxAnyPos] : iv.start < iv.end }

\* Every list of at most MaxTgt targets, in any order, overlapping or not.
AnyTargetLists == UNION { [1..k -> ProperIntervals] : k \in 0..MaxTgt }

\* lines 80-86 on a chromosome whose targets are not sorted or overlap.
ChromNextAny ==
    /\ pc = "chrom"
    /\ chroms_left > 0
    /\ \E acc \in AccessLists, tgt \in AnyTargetLists \ TargetLists :
         /\ access_arr' = acc
         /\ target_arr' = tgt
         /\ tgt_start' = tgt[1].start
         /\ tgt_end' = tgt[1].end
    /\ tgt_idx' = 1
    /\ pc' = "acc"
    /\ chrom' = chrom + 1
    /\ chroms_left' = chroms_left - 1
    /\ acc_idx' = 0
    /\ acc_start' = None
    /\ acc_end' = None
    /\ bg_start' = None
    /\ yielded' = <<>>
    /\ yield_acc' = <<>>
    /\ passes' = 0
    /\ stop_at' = 0
    /\ UNCHANGED pad_size
    /\ UNCHANGED notSweep

\* The sweep on any targets.
SweepAnyNext ==
    \/ ChromNext
    \/ ChromNextAny
    \/ SweepReturn
    \/ AccessTooSmall
    \/ AccessBegin
    \/ WhilePass
    \/ SplitResume
    \/ EmitRest
    \/ EmitUnbroken
    \/ AccessExhausted
    \/ ChromLoop

\* access_chroms holds one chromosome.
SweepOneInit == SweepInit /\ chroms_left = 1

SpecSweepAny == SweepOneInit /\ [][SweepAnyNext]_vars

\* The sweep driven to its end: GA.from_rows (line 62) iterates the generator
\* until it returns, so a step that can be taken is taken.
SpecSweepFair ==
    SweepInit /\ [][SweepAnyNext]_vars /\ WF_vars(SweepAnyNext)

\* ------------------------------------------------------ claims on the sweep
\* Two half-open intervals share a position.
Overlap(s1, e1, s2, e2) == s1 < e2 /\ s2 < e1 /\ s1 < e1 /\ s2 < e2

\* Position p lies in the half-open interval [s, e).
Within(p, s, e) == s <= p /\ p < e

\* C1 (as claimed): on sorted, non-overlapping accessible intervals and sorted,
\* non-overlapping targets with start < end, for any pad_size >= 0, no two
\* background intervals yielded on a chromosome overlap each other, and none
\* overlaps a target of that chromosome expanded by pad_size on both sides.
C1_SweepNonOverlap ==
    /\ \A i, j \in 1..Len(yielded) :
         i < j => ~Overlap(yielded[i][2], yielded[i][3],
                           yielded[j][2], yielded[j][3])
    /\ \A i \in 1..Len(yielded), k \in 1..Len(target_arr) :
         ~Overlap(yielded[i][2], yielded[i][3],
                  target_arr[k].start - pad_size, target_arr[k].end + pad_size)

\* C2: when a chromosome is complete, every position of every accessible
\* interval larger than 2 * pad_size, shrunk by pad_size on each end, lies in
\* a yielded background interval or in a target expanded by pad_size.
C2_SweepCoverage ==
    pc = "chromdone" =>
        \A a \in 1..Len(access_arr) :
            access_arr[a].end - access_arr[a].start > 2 * pad_size =>
                \A p \in (access_arr[a].start + pad_size)
                          ..(access_arr[a].end - pad_size - 1) :
                    \/ \E i \in 1..Len(yielded) :
                          Within(p, yielded[i][2], yielded[i][3])
                    \/ \E k \in 1..Len(target_arr) :
                          Within(p, target_arr[k].start - pad_size,
                                 target_arr[k].end + pad_size)

\* C2's case: a padded chromosome with targets is complete, and a target split
\* an accessible region larger than twice the pad.
C2_Witness ==
    /\ pc = "chromdone"
    /\ pad_size > 0
    /\ \E a \in 1..Len(access_arr), k \in 1..Len(target_arr),
          i \in 1..Len(yielded) :
         /\ access_arr[a].end - access_arr[a].start > 2 * pad_size
         /\ yielded[i][2] = access_arr[a].start + pad_size
         /\ yielded[i][3] = target_arr[k].start - pad_size
         /\ target_arr[k].end < access_arr[a].end

\* ------------------------------------------------------ chromosome names
\* A chromosome name is the sequence of its characters.
Chr1 == <<"c", "h", "r", "1">>
Chr2 == <<"c", "h", "r", "2">>
ChrX == <<"c", "h", "r", "X">>
ChrM == <<"c", "h", "r", "M">>

\* The characters of the names, in ASCII order.
Ascii == <<"0", "1", "2", "3", "4", "5", "6", "7", "8", "9",
           "A", "B", "C", "D", "E", "F", "G", "H", "I", "J", "K", "L", "M",
           "N", "O", "P", "Q", "R", "S", "T", "U", "V", "W", "X", "Y", "Z",
           "_",
           "a", "b", "c", "d", "e", "f", "g", "h", "i", "j", "k", "l", "m",
           "n", "o", "p", "q", "r", "s", "t", "u", "v", "w", "x", "y", "z">>

CharCode(c) == CHOOSE i \in 1..Len(Ascii) : Ascii[i] = c

IsDigit(c) == \E i \in 1..10 : Ascii[i] = c

DigitValue(c) == CharCode(c) - 1

\* The tail of sequence q from its (k+1)-th element on: q[k:].
Drop(q, k) == SubSeq(q, k + 1, Len(q))

\* The first k elements of q: q[:k].
Take(q, k) == SubSeq(q, 1, k)

HasChrPrefix(name) == Len(name) >= 3 /\ Take(name, 3) = <<"c", "h", "r">>

AllDigits(q) == Len(q) > 0 /\ \A i \in 1..Len(q) : IsDigit(q[i])

RECURSIVE ParseInt(_)
ParseInt(q) ==
    IF q = <<>> THEN 0
    ELSE 10 * ParseInt(Take(q, Len(q) - 1)) + DigitValue(q[Len(q)])

\* Strings compared as Python compares them: character by character.
RECURSIVE StrLess(_, _)
StrLess(a, b) ==
    IF b = <<>> THEN FALSE
    ELSE IF a = <<>> THEN TRUE
    ELSE IF a[1] # b[1] THEN CharCode(a[1]) < CharCode(b[1])
    ELSE StrLess(Tail(a), Tail(b))

\* The chromosome sort key: (0, number) for a numeric name, (1, 0) for X and
\* (1, 1) for Y, (2, name) for any other, after an optional "chr" is stripped.
sorter_chrom(name) ==
    LET rest == IF HasChrPrefix(name) THEN Drop(name, 3) ELSE name
    IN  IF AllDigits(rest) THEN <<0, ParseInt(rest), <<>>>>
        ELSE IF rest \in {<<"X">>, <<"x">>} THEN <<1, 0, <<>>>>
        ELSE IF rest \in {<<"Y">>, <<"y">>} THEN <<1, 1, <<>>>>
        ELSE <<2, 0, rest>>

KeyLess(k1, k2) ==
    \/ k1[1] < k2[1]
    \/ k1[1] = k2[1] /\ k1[2] < k2[2]
    \/ k1[1] = k2[1] /\ k1[2] = k2[2] /\ StrLess(k1[3], k2[3])

\* ----------------------------------------------------------- GenomicArray
Row(c, s, e) == [chromosome |-> c, start |-> s, end |-> e]

\* The names the rows of the modelled tables carry, and a name none carries.
ArrayNames == {Chr1, Chr2}
QueryNames == ArrayNames \cup {ChrX}

Rows == { Row(c, s, e) : c \in ArrayNames,
                         s \in 0..MaxCoord, e \in 0..MaxCoord }

\* Well-formed rows: start < end.
ProperRows == { r \in Rows : r.start < r.end }

\* Every table of at most n rows, in any row order.
TablesUpTo(n) == UNION { [1..k -> ProperRows] : k \in 0..n }

\* Row r1 may stand before row r2 in a table sorted by (sort key, start).
RowLeq(r1, r2) ==
    \/ KeyLess(sorter_chrom(r1.chromosome), sorter_chrom(r2.chromosome))
    \/ /\ sorter_chrom(r1.chromosome) = sorter_chrom(r2.chromosome)
       /\ r1.start <= r2.start

IsSorted(table) ==
    \A i \in 1..Len(table), j \in 1..Len(table) :
        i < j => RowLeq(table[i], table[j])

Column(table, col) == [i \in 1..Len(table) |-> table[i][col]]

Chromosomes(table) == { table[i].chromosome : i \in 1..Len(table) }

\* self.data[self.data['chromosome'] == chrom]: a boolean mask never raises
\* KeyError; a name no row carries selects no row.
ChromRows(table, c) == SelectSeq(table, LAMBDA r : r.chromosome = c)

\* numpy's searchsorted on column a (which the code takes to be sorted):
\* a binary search over the half-open index range [lo, hi), 0-based.
RECURSIVE BinSearch(_, _, _, _, _)
BinSearch(a, v, side, lo, hi) ==
    IF lo < hi
    THEN LET mid == lo + ((hi - lo) \div 2)
         IN  IF \/ side = "left" /\ a[mid + 1] < v
                \/ side = "right" /\ a[mid + 1] <= v
             THEN BinSearch(a, v, side, mid + 1, hi)
             ELSE BinSearch(a, v, side, lo, mid)
    ELSE lo

searchsorted(a, v, side) == BinSearch(a, v, side, 0, Len(a))

\* lines 247 and 255: the endpoints outside the range are set to the boundary.
ClampStart(table, start) ==
    [i \in 1..Len(table) |->
        IF table[i].start < start
        THEN [table[i] EXCEPT !.start = start] ELSE table[i]]

ClampEnd(table, end) ==
    [i \in 1..Len(table) |->
        IF table[i].end > end
        THEN [table[i] EXCEPT !.end = end] ELSE table[i]]

\* lines 242-250: "if start:" is false for start = 0.
AfterStart(table, start, trim) ==
    IF start # 0
    THEN IF trim
         THEN ClampStart(
                  Drop(table, searchsorted(Column(table, "end"), start,
                                           "right")),
                  start)
         ELSE Drop(table, searchsorted(Column(table, "start"), start,
                                       "left"))
    ELSE table

\* lines 251-257: "if end:" is false for end = 0.
BeforeEnd(table, end, trim) ==
    IF end # 0
    THEN IF trim
         THEN ClampEnd(
                  Take(table, searchsorted(Column(table, "start"), end,
                                           "left")),
                  end)
         ELSE Take(table, searchsorted(Column(table, "end"), end, "right"))
    ELSE table

\* GenomicArray.in_range: what is returned, and the error raised if any.
in_range(table, c, start, end, trim) ==
    [raised |-> "none",
     rows |-> BeforeEnd(AfterStart(ChromRows(table, c), start, trim),
                        end, trim)]

\* pd.concat
RECURSIVE Concat(_)
Concat(tables) ==
    IF tables = <<>> THEN <<>> ELSE Head(tables) \o Concat(Tail(tables))

\* GenomicArray.in_ranges with starts and ends given: ranges is zip(starts, ends).
in_ranges(table, c, ranges, trim) ==
    [raised |-> "none",
     rows |-> Concat([k \in 1..Len(ranges) |->
                         in_range(table, c, ranges[k][1], ranges[k][2],
                                  trim).rows])]

\* GenomicArray.in_ranges with neither starts nor ends.
in_ranges_all(table, c) ==
    [raised |-> "none", rows |-> ChromRows(table, c)]

\* uniq: an element is yielded when it differs from the one before it.
uniq(arr) ==
    LET keep == { i \in 1..Len(arr) : i = 1 \/ arr[i] # arr[i - 1] }
        RECURSIVE pick(_)
        pick(i) == IF i > Len(arr) THEN <<>>
                   ELSE IF i \in keep THEN <<arr[i]>> \o pick(i + 1)
                   ELSE pick(i + 1)
    IN  pick(1)

\* GenomicArray.by_chromosome iterated to its end over a table that is not
\* modified meanwhile (dict(...) at antitarget.py 27, 30 and 75; the bins of
\* by_bin, line 196): the pairs it yields, in order.
by_chromosome(table) ==
    LET names == uniq(Column(table, "chromosome"))
    IN  [k \in 1..Len(names) |-> <<names[k], ChromRows(table, names[k])>>]

\* as_rows (lines 78-82, 56-61): DataFrame.from_records is handed a
\* GenomicArray, which carries __next__ (line 157). A pandas that takes it for
\* an iterator calls next() on it, which raises TypeError; any other rebuilds
\* the table from its rows.
AsRowsOutcomes == {"rows", "TypeError"}

Modes == {"trim", "drop", "include"}

\* The (start, end) pairs of in_ranges, each with start <= end.
Ranges == { q \in (0..MaxCoord) \X (0..MaxCoord) : q[1] <= q[2] }

RangeLists == UNION { [1..k -> Ranges] : k \in 1..MaxRanges }

BinTables == { t \in TablesUpTo(MaxBins) : IsSorted(t) }

\* The index of a table as it is read or built from rows: 0, 1, ...
RangeIndex(n) == [k \in 1..n |-> k - 1]

\* Most calls of the modifying methods on one array.
MaxEdits == 2

ArrayInit ==
    /\ data \in TablesUpTo(MaxRows)
    /\ data_index = RangeIndex(Len(data))
    /\ edits = 0
    /\ call = [op |-> "none"]
    /\ result = [op |-> "none"]
    /\ frame = [kind |-> "none"]
    /\ SweepIdle
    /\ BackgroundIdle

CallInRange ==
    /\ call.op = "none"
    /\ \E c \in QueryNames, s \in 0..MaxCoord, e \in 0..MaxCoord,
          trim \in BOOLEAN :
         /\ call' = [op |-> "in_range", chrom |-> c, start |-> s, end |-> e,
                     trim |-> trim]
         /\ result' = in_range(data, c, s, e, trim)
    /\ UNCHANGED <<data, data_index, edits, frame>>
    /\ UNCHANGED notArray

CallInRanges ==
    /\ call.op = "none"
    /\ \E c \in QueryNames, rs \in RangeLists, trim \in BOOLEAN :
         /\ call' = [op |-> "in_ranges", chrom |-> c, ranges |-> rs,
                     trim |-> trim]
         /\ result' = in_ranges(data, c, rs, trim)
    /\ UNCHANGED <<data, data_index, edits, frame>>
    /\ UNCHANGED notArray

CallInRangesAll ==
    /\ call.op = "none"
    /\ \E c \in QueryNames :
         /\ call' = [op |-> "in_ranges_all", chrom |-> c]
         /\ result' = in_ranges_all(data, c)
    /\ UNCHANGED <<data, data_index, edits, frame>>
    /\ UNCHANGED notArray

\* line 209: by_chromosome() makes a generator; no line of its body has run.
CallByChromosome ==
    /\ call.op = "none"
    /\ call' = [op |-> "by_chromosome"]
    /\ result' = [raised |-> "none"]
    /\ frame' = [kind |-> "by_chromosome", started |-> FALSE, names |-> <<>>,
                 aliased |-> FALSE, i |-> 0, items |-> <<>>,
                 raised |-> "none", done |-> FALSE]
    /\ UNCHANGED <<data, data_index, edits>>
    /\ UNCHANGED notArray

\* lines 211-212 and 16-20: one next() on the generator. The first next()
\* takes the chromosome column as it is then, and uniq iterates it: names is
\* what the iterator reads, and aliased says that it still is the column of
\* self.data. uniq goes on to the next element that differs from the one it
\* yielded last; the rows of the pair are taken from self.data as it is now.
NextByChromosome ==
    /\ frame.kind = "by_chromosome"
    /\ ~frame.done
    /\ LET names == IF frame.started THEN frame.names
                    ELSE Column(data, "chromosome")
           aliased == IF frame.started THEN frame.aliased ELSE TRUE
           prev == IF frame.i = 0 THEN <<>>
                   ELSE frame.items[Len(frame.items)][1]
           later == { j \in (frame.i + 1)..Len(names) :
                        frame.i = 0 \/ names[j] # prev }
       IN  IF later = {}
           THEN frame' = [frame EXCEPT !.started = TRUE, !.names = names,
                                       !.aliased = FALSE, !.done = TRUE]
           ELSE LET j == CHOOSE k \in later : \A l \in later : k <= l
                IN  frame' = [frame EXCEPT
                                 !.started = TRUE,
                                 !.names = names,
                                 !.aliased = aliased,
                                 !.i = j,
                                 !.items = Append(@, <<names[j],
                                                      ChromRows(data,
                                                                names[j])>>)]
    /\ UNCHANGED <<data, data_index, edits, call, result>>
    /\ UNCHANGED notArray

\* line 181: by_bin(bins, mode) makes a generator; no line of its body has run.
CallByBin ==
    /\ call.op = "none"
    /\ \E bins \in BinTables, mode \in Modes :
         /\ call' = [op |-> "by_bin", bins |-> bins, mode |-> mode]
         /\ frame' = [kind |-> "by_bin", bins |-> bins, mode |-> mode,
                      g |-> 0, b |-> 0, cn_rows |-> <<>>, items |-> <<>>,
                      raised |-> "none", done |-> FALSE]
    /\ result' = [raised |-> "none"]
    /\ UNCHANGED <<data, data_index, edits>>
    /\ UNCHANGED notArray

\* lines 196-207: one next() on the generator. At the first bin of a
\* chromosome group the rows of that chromosome are taken from self.data as
\* it is now (line 198); the bin's rows are cut out of them by in_range
\* (lines 204-206) and handed to as_rows (line 207).
NextByBin ==
    /\ frame.kind = "by_bin"
    /\ ~frame.done
    /\ LET groups == by_chromosome(frame.bins)
           fresh == frame.g = 0 \/ frame.b = Len(groups[frame.g][2])
           g == IF fresh THEN frame.g + 1 ELSE frame.g
           b == IF fresh THEN 1 ELSE frame.b + 1
       IN  IF g > Len(groups)
           THEN frame' = [frame EXCEPT !.done = TRUE]
           ELSE LET cn_rows == IF fresh THEN ChromRows(data, groups[g][1])
                               ELSE frame.cn_rows
                    bin_row == groups[g][2][b]
                    binned_rows == in_range(cn_rows, groups[g][1],
                                            bin_row.start, bin_row.end,
                                            frame.mode = "trim").rows
                IN  \E outcome \in AsRowsOutcomes :
                        frame' =
                            IF outcome = "rows"
                            THEN [frame EXCEPT
                                     !.g = g, !.b = b, !.cn_rows = cn_rows,
                                     !.items = Append(@, <<bin_row,
                                                          binned_rows>>)]
                            ELSE [frame EXCEPT
                                     !.g = g, !.b = b, !.cn_rows = cn_rows,
                                     !.raised = "TypeError", !.done = TRUE]
    /\ UNCHANGED <<data, data_index, edits, call, result>>
    /\ UNCHANGED notArray

ArrayNext ==
    \/ CallInRange
    \/ CallInRanges
    \/ CallInRangesAll
    \/ CallByChromosome
    \/ NextByChromosome
    \/ CallByBin
    \/ NextByBin

SpecArray == ArrayInit /\ [][ArrayNext]_vars

\* ------------------------------------------------------ GenomicArray.sort
Chr10 == <<"c", "h", "r", "1", "0">>
ChrY == <<"c", "h", "r", "Y">>
N2 == <<"2">>

\* Most rows of a table given to sort.
MaxSortRows == 3

\* The names of the sorted tables: numeric names whose numeric and alphabetic
\* orders differ, two names with one key, X, Y, and a name of the last tier.
SortNames == {Chr10, Chr2, N2, ChrX, ChrY, ChrM}

\* Their rows: two starts, and two ends for each, so that distinct rows tie.
SortRows == { Row(c, s, e) : c \in SortNames, s \in {0, 1}, e \in {2, 3} }

SortTables == UNION { [1..k -> SortRows] : k \in 0..MaxSortRows }

\* A slip in line 345: by=['SORT_KEY'], the start column is left out.
SortsBeforeByKeyOnly(r1, r2) ==
    KeyLess(sorter_chrom(r1.chromosome), sorter_chrom(r2.chromosome))

\* line 345: by=['SORT_KEY', 'start'], ascending.
SortsBefore(r1, r2) ==
    \/ KeyLess(sorter_chrom(r1.chromosome), sorter_chrom(r2.chromosome))
    \/ /\ sorter_chrom(r1.chromosome) = sorter_chrom(r2.chromosome)
       /\ r1.start < r2.start

\* Row r put into an ordered table behind every row that does not sort after it.
RECURSIVE InsertBehind(_, _)
InsertBehind(table, r) ==
    IF table = <<>> THEN <<r>>
    ELSE IF SortsBefore(r, Head(table)) THEN <<r>> \o table
    ELSE <<Head(table)>> \o InsertBehind(Tail(table), r)

\* lines 344-345: sort_index(by=[two columns]) orders the rows with a lexsort
\* indexer, which keeps rows with equal keys in their previous order.
RECURSIVE sort_index(_)
sort_index(table) ==
    IF table = <<>> THEN <<>>
    ELSE InsertBehind(sort_index(Take(table, Len(table) - 1)),
                      table[Len(table)])

\* GenomicArray.sort: the new self.data.
sort(table) == sort_index(table)

SortInit ==
    /\ data \in SortTables
    /\ data_index = RangeIndex(Len(data))
    /\ edits = 0
    /\ call = [op |-> "none"]
    /\ result = [op |-> "none"]
    /\ frame = [kind |-> "none"]
    /\ SweepIdle
    /\ BackgroundIdle

\* The frame of a suspended by_chromosome after self.data was bound to a new
\* table (lines 290, 339, 348): the column it iterates is the old table's.
Detached(f) ==
    IF f.kind = "by_chromosome" /\ f.aliased
    THEN [f EXCEPT !.aliased = FALSE]
    ELSE f

\* lines 342-348; sort may be applied again to the table it left.
CallSort ==
    /\ edits < MaxEdits
    /\ edits' = edits + 1
    /\ call' = [op |-> "sort", before |-> data]
    /\ data' = sort(data)
    /\ data_index' = RangeIndex(Len(data))
    /\ result' = [raised |-> "none"]
    /\ frame' = Detached(frame)
    /\ UNCHANGED notArray

SortNext == CallSort

SpecSort == SortInit /\ [][SortNext]_vars

\* lines 336-338: np.random.seed(0xA5EED), then np.random.shuffle of
\* arange(n): the order it leaves, for n = 1, 2, ...: the Mersenne Twister
\* seeded with 0xA5EED, j drawn with rk_interval(i) for i = n-1 down to 1.
ShuffleOrders ==
    << <<0>>,
       <<1, 0>>,
       <<1, 2, 0>>,
       <<1, 3, 2, 0>>,
       <<3, 1, 0, 2, 4>>,
       <<3, 5, 1, 0, 2, 4>> >>

\* lines 334-340: shuffle returns order and leaves self.data.iloc[order],
\* each row with the label it had.
shuffle(table, labels) ==
    LET order == IF table = <<>> THEN <<>> ELSE ShuffleOrders[Len(table)]
    IN  [order |-> order,
         data |-> [k \in 1..Len(table) |-> table[order[k] + 1]],
         index |-> [k \in 1..Len(table) |-> labels[order[k] + 1]]]

CallShuffle ==
    /\ edits < MaxEdits
    /\ edits' = edits + 1
    /\ call' = [op |-> "shuffle"]
    /\ data' = shuffle(data, data_index).data
    /\ data_index' = shuffle(data, data_index).index
    /\ result' = [raised |-> "none",
                  order |-> shuffle(data, data_index).order]
    /\ frame' = Detached(frame)
    /\ UNCHANGED notArray

\* Most distinct coordinates in the rows and values that add_array and
\* __setitem__ are given.
MaxAssigned == 2

\* The coordinates given: the largest ones.
AssignedCoords == (MaxCoord - MaxAssigned + 1)..MaxCoord

\* The rows given to add_array and to __setitem__.
EditRows == { r \in ProperRows : /\ r.start \in AssignedCoords
                                 /\ r.end \in AssignedCoords }

\* Most rows of the array given to add_array.
MaxAdded == 1

\* The arguments given to add_array: a GenomicArray with its table, or an
\* object of another type.
Others(room) ==
    { [array |-> TRUE, data |-> t] :
        t \in { u \in UNION { [1..k -> EditRows] : k \in 0..MaxAdded } :
                   Len(u) <= room } }
    \cup { [array |-> FALSE, data |-> <<>>] }

\* lines 281-291: a ValueError for an argument of another type; else the
\* other table's rows, if it has any, are appended, and the table is sorted.
add_array(table, other) ==
    IF ~other.array
    THEN [raised |-> "ValueError", data |-> table]
    ELSE [raised |-> "none",
          data |-> sort(IF Len(other.data) > 0 THEN table \o other.data
                        ELSE table)]

CallAddArray ==
    /\ edits < MaxEdits
    /\ edits' = edits + 1
    /\ \E other \in Others(MaxRows - Len(data)) :
         /\ call' = [op |-> "add_array"]
         /\ data' = add_array(data, other).data
         /\ data_index' = IF other.array THEN RangeIndex(Len(data'))
                          ELSE data_index
         /\ result' = [raised |-> add_array(data, other).raised]
         /\ frame' = IF other.array THEN Detached(frame) ELSE frame
    /\ UNCHANGED notArray

\* The frames an assignment into self.data (lines 139, 141, 145, 148) may
\* leave a suspended by_chromosome in, when it changes a name: the iterator
\* reads the column's own array and shows the new names, or it reads a copy
\* or the column was stored in a new array, and then it shows no later
\* assignment either.
Assigned(f, table) ==
    IF /\ f.kind = "by_chromosome"
       /\ f.aliased
       /\ Column(table, "chromosome") # f.names
    THEN { [f EXCEPT !.names = Column(table, "chromosome")],
           [f EXCEPT !.aliased = FALSE] }
    ELSE {f}

\* The values __setitem__ is given for a cell of a column: a name, or a
\* coordinate.
ColumnValues(col) ==
    IF col = "chromosome" THEN ArrayNames ELSE AssignedCoords


\* lines 138-139: index an integer, self.data.iloc[index] = value with value
\* a row: the row at that position, counted from the end if negative, is
\* replaced; IndexError beyond the table.
setitem_row(table, index, value) ==
    IF index >= Len(table) \/ index < -Len(table)
    THEN [raised |-> "IndexError", data |-> table]
    ELSE [raised |-> "none",
          data |-> [table EXCEPT ![IF index < 0 THEN Len(table) + index + 1
                                   ELSE index + 1] = value]]

CallSetItemRow ==
    /\ edits < MaxEdits
    /\ edits' = edits + 1
    /\ \E index \in (-Len(data) - 1)..Len(data), value \in EditRows :
         /\ data' = setitem_row(data, index, value).data
         /\ result' = [raised |-> setitem_row(data, index, value).raised]
    /\ call' = [op |-> "setitem"]
    /\ frame' \in Assigned(frame, data')
    /\ UNCHANGED data_index
    /\ UNCHANGED notArray

\* lines 140-141: index a column name, self.data[index] = value with value
\* one value for every row (values[k] for row k; a scalar is the same value
\* for all).
setitem_column(table, col, values) ==
    [k \in 1..Len(table) |-> [table[k] EXCEPT ![col] = values[k]]]

CallSetItemColumn ==
    /\ edits < MaxEdits
    /\ edits' = edits + 1
    /\ \E col \in {"chromosome", "start", "end"} :
         \E values \in [1..Len(data) -> ColumnValues(col)] :
             data' = setitem_column(data, col, values)
    /\ call' = [op |-> "setitem"]
    /\ result' = [raised |-> "none"]
    /\ frame' \in Assigned(frame, data')
    /\ UNCHANGED data_index
    /\ UNCHANGED notArray

\* lines 142-145: index a (row label, column name) pair,
\* self.data.loc[index] = value: the cell of the row that carries the label.
setitem_cell(table, labels, label, col, value) ==
    LET k == CHOOSE i \in 1..Len(table) : labels[i] = label
    IN  [table EXCEPT ![k] = [table[k] EXCEPT ![col] = value]]

CallSetItemCell ==
    /\ edits < MaxEdits
    /\ edits' = edits + 1
    /\ \E k0 \in 1..Len(data), col \in {"chromosome", "start", "end"} :
         \E value \in ColumnValues(col) :
             data' = setitem_cell(data, data_index, data_index[k0], col,
                                  value)
    /\ call' = [op |-> "setitem"]
    /\ result' = [raised |-> "none"]
    /\ frame' \in Assigned(frame, data')
    /\ UNCHANGED data_index
    /\ UNCHANGED notArray

\* lines 146-148: index a slice lo:hi, self.data[index] = value with value a
\* row: every row at a position in the slice is replaced.
setitem_slice(table, lo, hi, value) ==
    [k \in 1..Len(table) |-> IF lo < k /\ k <= hi THEN value ELSE table[k]]

CallSetItemSlice ==
    /\ edits < MaxEdits
    /\ edits' = edits + 1
    /\ \E lo \in 0..Len(data), hi \in 0..Len(data), value \in EditRows :
         data' = setitem_slice(data, lo, hi, value)
    /\ call' = [op |-> "setitem"]
    /\ result' = [raised |-> "none"]
    /\ frame' \in Assigned(frame, data')
    /\ UNCHANGED data_index
    /\ UNCHANGED notArray

\* lines 146-148: index a list of one boolean per row, self.data[index] =
\* value with value a row: every row whose boolean is true is replaced. The
\* assertion of line 147 fails on the empty list.
setitem_mask(table, mask, value) ==
    IF Len(mask) = 0
    THEN [raised |-> "AssertionError", data |-> table]
    ELSE [raised |-> "none",
          data |-> [k \in 1..Len(table) |->
                       IF mask[k] THEN value ELSE table[k]]]

CallSetItemMask ==
    /\ edits < MaxEdits
    /\ edits' = edits + 1
    /\ \E mask \in [1..Len(data) -> BOOLEAN], value \in EditRows :
         /\ data' = setitem_mask(data, mask, value).data
         /\ result' = [raised |-> setitem_mask(data, mask, value).raised]
    /\ call' = [op |-> "setitem"]
    /\ frame' \in Assigned(frame, data')
    /\ UNCHANGED data_index
    /\ UNCHANGED notArray

\* Most rows of an array before it is modified.
MaxEditRows == 2

EditInit ==
    /\ data \in TablesUpTo(MaxEditRows)
    /\ data_index = RangeIndex(Len(data))
    /\ edits = 0
    /\ call = [op |-> "none"]
    /\ result = [op |-> "none"]
    /\ frame = [kind |-> "none"]
    /\ SweepIdle
    /\ BackgroundIdle

\* A GenomicArray that is modified, also while a generator made from it is
\* suspended.
EditNext ==
    \/ CallSort
    \/ CallShuffle
    \/ CallAddArray
    \/ CallSetItemRow
    \/ CallSetItemColumn
    \/ CallSetItemCell
    \/ CallSetItemSlice
    \/ CallSetItemMask
    \/ CallByChromosome
    \/ NextByChromosome

SpecEdit == EditInit /\ [][EditNext]_vars

\* Most rows of an array before it is modified under a suspended by_bin.
MaxEditBinRows == 1

EditBinInit ==
    /\ data \in TablesUpTo(MaxEditBinRows)
    /\ data_index = RangeIndex(Len(data))
    /\ edits = 0
    /\ call = [op |-> "none"]
    /\ result = [op |-> "none"]
    /\ frame = [kind |-> "none"]
    /\ SweepIdle
    /\ BackgroundIdle

\* A GenomicArray that is modified, also while a generator made by by_bin is
\* suspended.
EditBinNext ==
    \/ CallSort
    \/ CallShuffle
    \/ CallAddArray
    \/ CallSetItemRow
    \/ CallSetItemColumn
    \/ CallSetItemCell
    \/ CallSetItemSlice
    \/ CallSetItemMask
    \/ CallByBin
    \/ NextByBin

SpecEditBin == EditBinInit /\ [][EditBinNext]_vars

\* --------------------------------------------------------- get_background
ChrUn == <<"c", "h", "r", "U", "n">>
MT == <<"M", "T">>

\* The chromosome names of the target and accessible files being reconciled.
GbNames == {Chr1, ChrX, ChrM, ChrUn, MT}

\* dict(pairs): a later pair replaces an earlier one with the same key.
Dict(pairs) ==
    [n \in { pairs[k][1] : k \in 1..Len(pairs) } |->
        LET last == CHOOSE k \in 1..Len(pairs) :
                        /\ pairs[k][1] = n
                        /\ \A j \in (k + 1)..Len(pairs) : pairs[j][1] # n
        IN  pairs[last][2]]

\* dict.keys(): the keys in the dict's own (arbitrary, fixed) order.
RECURSIVE KeysOf(_)
KeysOf(S) ==
    IF S = {} THEN <<>>
    ELSE LET n == CHOOSE x \in S : TRUE IN <<n>> \o KeysOf(S \ {n})

\* del d[k] for every k of S.
Without(d, S) == [n \in (DOMAIN d) \ S |-> d[n]]

\* line 41: is_canonical.match(c) for the pattern (chr)?(\d+|[XYxy])$
is_canonical(c) ==
    LET core(q) == AllDigits(q) \/ q \in {<<"X">>, <<"Y">>, <<"x">>, <<"y">>}
    IN  \/ HasChrPrefix(c) /\ core(Drop(c, 3))
        \/ core(c)

\* A slip in line 31: the test inverted, raising when a name is shared.
NamesMismatchInverted(acc, tgt) ==
    /\ DOMAIN acc # {}
    /\ (DOMAIN acc) \cap (DOMAIN tgt) # {}

\* line 31: the names of the accessible regions do not match the targets'
NamesMismatch(acc, tgt) ==
    /\ DOMAIN acc # {}
    /\ (DOMAIN acc) \cap (DOMAIN tgt) = {}

\* line 47
max_tgt_chr_name_len(tgt) ==
    CHOOSE m \in { Len(n) : n \in DOMAIN tgt } :
        \A n \in DOMAIN tgt : Len(n) <= m

\* A slip in line 49: a name as long as the longest target name is dropped too.
LongNameOrEqual(c, max_len) == Len(c) >= max_len

\* line 49: alternative contigs have long names
LongName(c, max_len) == Len(c) > max_len

\* lines 39-49
chroms_to_skip(acc, tgt) ==
    LET untgt_chroms == (DOMAIN acc) \ (DOMAIN tgt)
    IN  IF \E c \in DOMAIN tgt : is_canonical(c)
        THEN { c \in untgt_chroms : ~is_canonical(c) }
        ELSE { c \in untgt_chroms :
                 LongName(c, max_tgt_chr_name_len(tgt)) }

\* lines 68-75: one region per target chromosome, from telomere_size to the
\* end of that chromosome's last target row.
guess_chromosome_regions(tgt, telomere_size) ==
    LET keys == KeysOf(DOMAIN tgt)
        endpoints == [k \in 1..Len(keys) |->
                         tgt[keys[k]][Len(tgt[keys[k]])].end]
        whole_chroms == [k \in 1..Len(keys) |->
                            Row(keys[k], telomere_size, endpoints[k])]
    IN  Dict(by_chromosome(whole_chroms))

\* A table with one row for each name of S.
RECURSIVE OneRowEach(_)
OneRowEach(S) ==
    IF S = {} THEN <<>>
    ELSE LET n == CHOOSE x \in S : TRUE
         IN  <<Row(n, 0, MaxCoord)>> \o OneRowEach(S \ {n})

BackgroundInit ==
    /\ gb_pc = "start"
    /\ \/ /\ access_bed = [given |-> FALSE, rows |-> <<>>]
          /\ target_bed \in { t \in TablesUpTo(MaxRows) : IsSorted(t) }
       \/ \E T \in SUBSET GbNames, A \in SUBSET GbNames :
            /\ access_bed = [given |-> TRUE, rows |-> OneRowEach(A)]
            /\ target_bed = OneRowEach(T)
    /\ target_chroms = <<>>
    /\ access_chroms = <<>>
    /\ skipped = {}
    /\ gb_error = "none"
    /\ SweepIdle
    /\ ArrayIdle

\* lines 27-37: both files are read; the names do not match.
GbRaiseMismatch ==
    /\ gb_pc = "start"
    /\ access_bed.given
    /\ NamesMismatch(Dict(by_chromosome(access_bed.rows)),
                     Dict(by_chromosome(target_bed)))
    /\ target_chroms' = Dict(by_chromosome(target_bed))
    /\ access_chroms' = Dict(by_chromosome(access_bed.rows))
    /\ gb_error' = "ValueError: chromosome names do not match"
    /\ gb_pc' = "raised"
    /\ UNCHANGED <<target_bed, access_bed, skipped>>
    /\ UNCHANGED notBackground

\* lines 27-31: both files are read; some name is shared.
GbReadBoth ==
    /\ gb_pc = "start"
    /\ access_bed.given
    /\ ~NamesMismatch(Dict(by_chromosome(access_bed.rows)),
                      Dict(by_chromosome(target_bed)))
    /\ target_chroms' = Dict(by_chromosome(target_bed))
    /\ access_chroms' = Dict(by_chromosome(access_bed.rows))
    /\ gb_pc' = "filter"
    /\ UNCHANGED <<target_bed, access_bed, skipped, gb_error>>
    /\ UNCHANGED notBackground

\* lines 38-52: untargeted alternative contigs are dropped.
GbFilter ==
    /\ gb_pc = "filter"
    /\ DOMAIN target_chroms # {}
    /\ skipped' = chroms_to_skip(access_chroms, target_chroms)
    /\ access_chroms' =
           Without(access_chroms, chroms_to_skip(access_chroms, target_chroms))
    /\ gb_pc' = "sweep"
    /\ UNCHANGED <<target_bed, access_bed, target_chroms, gb_error>>
    /\ UNCHANGED notBackground

\* lines 42-47: no target name is canonical, and max() is given no name at all.
GbFilterNoTargets ==
    /\ gb_pc = "filter"
    /\ DOMAIN target_chroms = {}
    /\ gb_error' = "ValueError: max() arg is an empty sequence"
    /\ gb_pc' = "raised"
    /\ UNCHANGED <<target_bed, access_bed, target_chroms, access_chroms,
                   skipped>>
    /\ UNCHANGED notBackground

\* lines 27-28, 53-58: no accessible regions are given, they are guessed.
GbGuess ==
    /\ gb_pc = "start"
    /\ ~access_bed.given
    /\ target_chroms' = Dict(by_chromosome(target_bed))
    /\ access_chroms' =
           guess_chromosome_regions(Dict(by_chromosome(target_bed)),
                                    TELOMERE_SIZE)
    /\ gb_pc' = "sweep"
    /\ UNCHANGED <<target_bed, access_bed, skipped, gb_error>>
    /\ UNCHANGED notBackground

\* gb_pc = "sweep": line 60, find_background_regions is called with
\* access_chroms and target_chroms as they stand.
BackgroundNext ==
    \/ GbRaiseMismatch
    \/ GbReadBoth
    \/ GbFilter
    \/ GbFilterNoTargets
    \/ GbGuess

SpecBackground == BackgroundInit /\ [][BackgroundNext]_vars

\* ------------------------------------------------- claims on GenomicArray
Max(a, b) == IF a >= b THEN a ELSE b
Min(a, b) == IF a <= b THEN a ELSE b

\* The rows of chromosome c that lie entirely inside [start, end).
RowsInside(table, c, start, end) ==
    SelectSeq(table, LAMBDA r : /\ r.chromosome = c
                                /\ r.start >= start
                                /\ r.end <= end)

\* The rows of chromosome c that share a position with [start, end).
RowsOverlapping(table, c, start, end) ==
    SelectSeq(table, LAMBDA r : /\ r.chromosome = c
                                /\ r.end > start
                                /\ r.start < end)

\* Each row with its start raised to start and its end lowered to end.
Clamped(table, start, end) ==
    [i \in 1..Len(table) |->
        [table[i] EXCEPT !.start = Max(table[i].start, start),
                         !.end = Min(table[i].end, end)]]

\* C3 (as claimed): on a table sorted by (chromosome, start), for a chromosome
\* of the table and 0 <= start <= end, in_range without trimming returns
\* exactly the chromosome's rows with row.start >= start and row.end <= end,
\* unchanged and in table order.
C3_InRangeNoTrim ==
    ( /\ call.op = "in_range"
      /\ ~call.trim
      /\ IsSorted(data)
      /\ call.chrom \in Chromosomes(data)
      /\ call.start <= call.end )
    => /\ result.raised = "none"
       /\ result.rows = RowsInside(data, call.chrom, call.start, call.end)

\* C4 (as claimed): on a table sorted by (chromosome, start), for a chromosome
\* of the table and 0 <= start < end, in_range with trimming returns exactly
\* the chromosome's rows with row.end > start and row.start < end, each with
\* its start replaced by max(row.start, start) and its end by min(row.end, end).
C4_InRangeTrim ==
    ( /\ call.op = "in_range"
      /\ call.trim
      /\ IsSorted(data)
      /\ call.chrom \in Chromosomes(data)
      /\ call.start < call.end )
    => /\ result.raised = "none"
       /\ result.rows =
              Clamped(RowsOverlapping(data, call.chrom, call.start, call.end),
                      call.start, call.end)

\* C5 (as claimed): in_range and in_ranges called with a chromosome name that
\* no row of the table carries raise a lookup error and return no table.
C5_AbsentChromosomeRaises ==
    ( /\ call.op \in {"in_range", "in_ranges", "in_ranges_all"}
      /\ call.chrom \notin Chromosomes(data) )
    => result.raised = "KeyError"

\* The index of the first row of the table that carries name c.
FirstRowOf(table, c) ==
    CHOOSE i \in 1..Len(table) :
        /\ table[i].chromosome = c
        /\ \A j \in 1..(i - 1) : table[j].chromosome # c

\* C9 (as claimed): by_chromosome on any table, sorted or not, yields exactly
\* one (chromosome, sub-table) pair per distinct chromosome value, in order of
\* first appearance, each sub-table holding exactly the table's rows of that
\* chromosome in their original relative order.
C9_ByChromosomeOncePerName ==
    ( /\ call.op = "by_chromosome"
      /\ frame.kind = "by_chromosome"
      /\ frame.done )
    => /\ Len(frame.items) = Cardinality(Chromosomes(data))
       /\ \A k \in 1..Len(frame.items) :
            /\ frame.items[k][1] \in Chromosomes(data)
            /\ frame.items[k][2] = ChromRows(data, frame.items[k][1])
       /\ \A k, l \in 1..Len(frame.items) :
            k < l => FirstRowOf(data, frame.items[k][1])
                       < FirstRowOf(data, frame.items[l][1])

\* C10 (as claimed): by_bin yields one pair per bin; with mode 'include' the
\* pair holds every row of the table on the bin's chromosome that overlaps the
\* bin, straddling rows included, with start and end unchanged; with mode
\* 'trim' it holds the same rows with their endpoints clamped to the bin; rows
\* entirely outside the bin are never yielded with it. Stated of the runs in
\* which as_rows raised nothing.
C10_ByBinModes ==
    ( /\ call.op = "by_bin"
      /\ frame.kind = "by_bin"
      /\ frame.done
      /\ frame.raised = "none"
      /\ call.mode \in {"include", "trim"}
      /\ IsSorted(data) )
    => /\ Len(frame.items) = Len(call.bins)
       /\ \A b \in 1..Len(frame.items) :
            LET bin == call.bins[b]
                over == RowsOverlapping(data, bin.chromosome, bin.start,
                                        bin.end)
            IN  /\ frame.items[b][1] = bin
                /\ frame.items[b][2] =
                       IF call.mode = "include" THEN over
                       ELSE Clamped(over, bin.start, bin.end)

\* ------------------------------------------------ claims on get_background
\* The chromosome names of the two files.
TargetNames == Chromosomes(target_bed)
AccessNames == Chromosomes(access_bed.rows)

\* A name is canonical: an optional "chr", then only digits or one of X, Y.
CanonicalName(n) ==
    LET body == IF HasChrPrefix(n) THEN Drop(n, 3) ELSE n
    IN  /\ body # <<>>
        /\ \/ \A i \in 1..Len(body) : IsDigit(body[i])
           \/ Len(body) = 1 /\ body[1] \in {"X", "Y", "x", "y"}

\* C6: with accessible regions given, when the target names and the accessible
\* names are both non-empty and share no name, get_background raises the
\* name-mismatch error; no chromosome has been excluded and the sweep is not
\* reached.
C6_DisjointNamesRaise ==
    ( /\ gb_pc \notin {"idle", "start"}
      /\ access_bed.given
      /\ TargetNames # {}
      /\ AccessNames # {}
      /\ TargetNames \cap AccessNames = {} )
    => /\ gb_pc = "raised"
       /\ gb_error = "ValueError: chromosome names do not match"
       /\ skipped = {}
       /\ DOMAIN access_chroms = AccessNames

\* C6's case: targets {chr1, ...} against accessible names none of which is a
\* target name, two or more on each side, and the error was raised.
C6_Witness ==
    /\ gb_pc = "raised"
    /\ gb_error = "ValueError: chromosome names do not match"
    /\ Cardinality(TargetNames) >= 2
    /\ Cardinality(AccessNames) >= 2

\* The names the claim says are excluded.
ExcludedNames ==
    { n \in AccessNames \ TargetNames :
        \/ /\ \E t \in TargetNames : CanonicalName(t)
           /\ ~CanonicalName(n)
        \/ /\ ~\E t \in TargetNames : CanonicalName(t)
           /\ \A t \in TargetNames : Len(n) > Len(t) }

\* C7: when the two name sets share a name, the accessible set handed to the
\* sweep is the original accessible set minus exactly the excluded names (an
\* untargeted name that is not canonical while some target name is, or that is
\* strictly longer than every target name while none is canonical); no target
\* chromosome is removed, none is added, and the kept sub-tables are the file's.
C7_Reconciliation ==
    ( /\ gb_pc = "sweep"
      /\ access_bed.given
      /\ TargetNames \cap AccessNames # {} )
    => /\ DOMAIN access_chroms = AccessNames \ ExcludedNames
       /\ skipped = ExcludedNames
       /\ (TargetNames \cap AccessNames) \subseteq DOMAIN access_chroms
       /\ DOMAIN access_chroms \subseteq AccessNames
       /\ \A n \in DOMAIN access_chroms :
            access_chroms[n] = ChromRows(access_bed.rows, n)

\* C7's case: no target name is canonical, an untargeted long name was dropped
\* and an untargeted name as long as the longest target name was kept.
C7_Witness ==
    /\ gb_pc = "sweep"
    /\ access_bed.given
    /\ TargetNames \cap AccessNames # {}
    /\ ~\E t \in TargetNames : CanonicalName(t)
    /\ skipped # {}
    /\ \E n \in DOMAIN access_chroms :
         /\ n \notin TargetNames
         /\ \E t \in TargetNames : Len(t) = Len(n)

\* The largest end of the rows of a non-empty table.
MaxEnd(table) ==
    CHOOSE m \in { table[i].end : i \in 1..Len(table) } :
        \A i \in 1..Len(table) : table[i].end <= m

\* C8 (as claimed): with no accessible regions given, every target chromosome
\* gets exactly one accessible interval, from telomere_size (150000) to the
\* largest end of the chromosome's target rows, for every target table sorted
\* by start, nested or overlapping targets included.
C8_GuessSpansToMaxEnd ==
    ( /\ gb_pc = "sweep"
      /\ ~access_bed.given )
    => /\ DOMAIN access_chroms = TargetNames
       /\ \A n \in DOMAIN access_chroms :
            access_chroms[n] =
                <<Row(n, 150000, MaxEnd(ChromRows(target_bed, n)))>>

\* --------------------------------------------------------- claims on sort
\* The rows a table holds.
RowsOf(table) == { table[i] : i \in 1..Len(table) }

\* How often row r stands in a table.
Count(table, r) == Cardinality({ i \in 1..Len(table) : table[i] = r })

\* Rows r1 and r2 tie on (chromosome sort key, start).
Tie(r1, r2) ==
    /\ sorter_chrom(r1.chromosome) = sorter_chrom(r2.chromosome)
    /\ r1.start = r2.start

\* The rows of a table that tie with r, in table order.
TiedWith(table, r) == SelectSeq(table, LAMBDA x : Tie(x, r))

\* C11: sort leaves the table holding the same multiset of rows, ordered
\* ascending by (chromosome sort key, start); rows that tie on (key, start)
\* keep their previous relative order; a sorted table is left as it was.
C11_SortStablePermutation ==
    call.op = "sort" =>
        /\ Len(data) = Len(call.before)
        /\ \A r \in RowsOf(data) \cup RowsOf(call.before) :
             Count(data, r) = Count(call.before, r)
        /\ \A i \in 1..Len(data), j \in 1..Len(data) :
             i < j =>
                LET ki == sorter_chrom(data[i].chromosome)
                    kj == sorter_chrom(data[j].chromosome)
                IN  \/ KeyLess(ki, kj)
                    \/ ki = kj /\ data[i].start <= data[j].start
        /\ \A r \in RowsOf(call.before) :
             TiedWith(data, r) = TiedWith(call.before, r)
        /\ IsSorted(call.before) => data = call.before

\* C11's case: sort was applied to a table that was not sorted, holds two
\* different rows that tie, and has chr10 standing before chr2.
C11_Witness ==
    /\ call.op = "sort"
    /\ ~IsSorted(call.before)
    /\ \E i \in 1..Len(call.before), j \in 1..Len(call.before) :
         /\ i < j
         /\ Tie(call.before[i], call.before[j])
         /\ call.before[i] # call.before[j]
    /\ \E i \in 1..Len(call.before), j \in 1..Len(call.before) :
         /\ i < j
         /\ call.before[i].chromosome = Chr10
         /\ call.before[j].chromosome \in {Chr2, N2}

\* ------------------------------------- claims on the sweep's target cursor
\* The triples yielded while accessible region number a was processed.
YieldsIn(a) ==
    LET pairs == [i \in 1..Len(yielded) |-> <<yield_acc[i], yielded[i]>>]
        mine == SelectSeq(pairs, LAMBDA p : p[1] = a)
    IN  [i \in 1..Len(mine) |-> mine[i][2]]

\* Accessible region number a has been processed to its end.
RegionFinished(a) ==
    \/ a < acc_idx
    \/ a = acc_idx /\ pc \in {"acc", "chromdone"}

\* After the targets of a chromosome are exhausted, a later accessible region
\* [a, b) yields (a + pad_size, b - pad_size) alone when b - a > 2 * pad_size,
\* and nothing otherwise.
UnbrokenAfterExhaustion ==
    (target_arr # <<>> /\ stop_at > 0) =>
        \A a \in (stop_at + 1)..acc_idx :
            RegionFinished(a) =>
                YieldsIn(a) =
                    IF access_arr[a].end - access_arr[a].start > 2 * pad_size
                    THEN <<Triple(chrom, access_arr[a].start + pad_size,
                                  access_arr[a].end - pad_size)>>
                    ELSE <<>>

\* Within a chromosome with targets a step leaves the cursor or moves it one
\* target forward, to the target it then holds; entering the next accessible
\* region leaves the cursor and the target it holds as they are.
CursorForward ==
    pc \in {"acc", "while", "split"} =>
        /\ tgt_idx' \in {tgt_idx, tgt_idx + 1}
        /\ tgt_idx' = tgt_idx + 1 =>
              /\ tgt_start' = target_arr[tgt_idx + 1].start
              /\ tgt_end' = target_arr[tgt_idx + 1].end
        /\ tgt_idx' = tgt_idx =>
              \/ UNCHANGED <<tgt_start, tgt_end>>
              \/ /\ tgt_idx = Len(target_arr)
                 /\ tgt_start' = Inf
                 /\ tgt_end' = Inf
        /\ acc_idx' # acc_idx => UNCHANGED <<tgt_idx, tgt_start, tgt_end>>

\* C12: the target cursor of a chromosome only moves forward, is shared by the
\* accessible regions of the chromosome and not reset when the next one
\* starts, and reads each target at most once; once the targets are
\* exhausted, each later accessible region larger than 2 * pad_size yields
\* exactly its shrunk interval, and each smaller one yields nothing.
C12_CursorOnlyForward ==
    /\ []UnbrokenAfterExhaustion
    /\ [][CursorForward]_vars

\* C12's case: a chromosome is complete whose cursor went through two targets
\* and was exhausted in one accessible region, and a later region, larger
\* than twice the pad, yielded its shrunk interval.
C12_Witness ==
    /\ pc = "chromdone"
    /\ tgt_idx = Len(target_arr)
    /\ Len(target_arr) >= 2
    /\ stop_at > 0
    /\ \E a \in (stop_at + 1)..Len(access_arr) :
         /\ access_arr[a].end - access_arr[a].start > 2 * pad_size
         /\ YieldsIn(a) = <<Triple(chrom, access_arr[a].start + pad_size,
                                   access_arr[a].end - pad_size)>>

\* -------------------------------- claims on the sweep's yielded intervals
\* C13: on a chromosome that has targets, every triple (chrom, s, e) yielded
\* while the accessible region [a, b) is processed has
\* a + pad_size <= s < e <= b - pad_size; a triple with e <= s comes from a
\* chromosome without targets only.
C13_YieldInsideShrunkRegion ==
    /\ target_arr # <<>> =>
          \A i \in 1..Len(yielded) :
              /\ yielded[i][1] = chrom
              /\ access_arr[yield_acc[i]].start + pad_size <= yielded[i][2]
              /\ yielded[i][2] < yielded[i][3]
              /\ yielded[i][3] <= access_arr[yield_acc[i]].end - pad_size
    /\ \A i \in 1..Len(yielded) :
          yielded[i][3] <= yielded[i][2] => target_arr = <<>>

\* C13's case: with a pad, on a chromosome whose targets do not ascend, a
\* target split an accessible region larger than twice the pad.
C13_Witness ==
    /\ pad_size > 0
    /\ Len(target_arr) >= 2
    /\ target_arr[2].start < target_arr[1].start
    /\ \E i \in 1..Len(yielded), k \in 1..Len(target_arr) :
         /\ yielded[i][2] = access_arr[yield_acc[i]].start + pad_size
         /\ yielded[i][3] = target_arr[k].start - pad_size

\* ----------------------------------------- claims on the sweep's termination
\* The step that ends a pass of the inner loop reads one more target or,
\* when none is left, sets the target bounds to infinity; after that no pass
\* is begun on the chromosome.
PassConsumes ==
    /\ (\/ pc = "while" /\ passes' = passes + 1 /\ pc' = "while"
        \/ pc = "split" /\ pc' = "while") =>
          \/ tgt_idx' = tgt_idx + 1
          \/ /\ tgt_idx = Len(target_arr)
             /\ tgt_start' = Inf
             /\ tgt_end' = Inf
    /\ (pc \in {"acc", "while"} /\ tgt_start = Inf) => passes' = passes

\* C14: find_background_regions terminates: each pass of the inner loop
\* consumes a target or sets the target bounds to infinity, which ends the
\* loop for good; a chromosome takes at most as many passes as it has
\* targets; and the generator returns, which it does only when no chromosome
\* is left.
C14_SweepTerminates ==
    /\ [](passes <= Len(target_arr))
    /\ [](pc = "done" => chroms_left = 0)
    /\ [][PassConsumes]_vars
    /\ <>(pc = "done")

\* C14's case: the last of several chromosomes is complete, and the inner loop
\* made as many passes on it as it has targets, more than one.
C14_Witness ==
    /\ pc = "chromdone"
    /\ chroms_left = 0
    /\ chrom > 1
    /\ Len(target_arr) > 1
    /\ passes = Len(target_arr)
    /\ acc_idx = Len(access_arr)
    /\ Len(access_arr) > 1

====
